---- MODULE Spec2Model ----
(***************************************************************************)
(* Annotations ("term[modifier1,modifier2]"), annotation collections and   *)
(* the ontology they can be resolved against, modelled from                *)
(* src/src/annotations/annotations.py and src/src/annotations/ontology.py. *)
(*                                                                         *)
(* A Python str is a sequence of one-character strings.  A Python object   *)
(* is a record whose field cls names its class; an exception raised by a   *)
(* call is the record [cls |-> <exception class>].                         *)
(***************************************************************************)
EXTENDS Integers, Sequences, FiniteSets, TLC

VARIABLES
    text,      \* the str handed to the constructor under examination
    annot,     \* the Annotation object that constructor built (or what it raised)
    colls,     \* the collection objects held by the caller, by register
    heap,      \* the OntologyEntry objects, by identity
    entries,   \* Ontology.entries of each Ontology instance (a dict)
    ret        \* the last method call: its arguments and what it returned or raised

vars == <<text, annot, colls, heap, entries, ret>>

\* ------------------------------------------------------------------ bounds

\* Longest str enumerated exhaustively by the parsing specifications.
MaxLen == 5
\* Most annotation strings joined into one collection string.
MaxMembers == 2
\* Most OntologyEntry objects the loader creates.
MaxEntries == 3
\* Most characters of a text made by joining annotation strings.
MaxText == 6
\* Most collections the caller parses before deriving others from them.
MaxParsed == 2

\* ------------------------------------------------------------------ str

NoObject == [cls |-> "NoneType"]
ValueError == [cls |-> "ValueError"]
KeyError == [cls |-> "KeyError"]
TypeError == [cls |-> "TypeError"]

IsException(v) == v.cls \in {"ValueError", "KeyError", "TypeError"}

\* Code point of a character (Python orders str by code point).
Ord(c) ==
    CASE c = " " -> 32 [] c = "$" -> 36 [] c = "," -> 44 [] c = "." -> 46
      [] c = "A" -> 65 [] c = "[" -> 91 [] c = "]" -> 93 [] c = "a" -> 97
      [] c = "b" -> 98 [] c = "c" -> 99 [] c = "x" -> 120 [] c = "y" -> 121

\* \s of the re module, over the characters used here.
IsSpace(c) == c = " "

Min(a, b) == IF a < b THEN a ELSE b

\* s < t for two str.
StrLess(s, t) ==
    \E k \in 0..Min(Len(s), Len(t)) :
        /\ \A i \in 1..k : s[i] = t[i]
        /\ \/ k = Len(s) /\ k < Len(t)
           \/ k < Len(s) /\ k < Len(t) /\ Ord(s[k + 1]) < Ord(t[k + 1])

\* sorted(S) for a set of str.
RECURSIVE sorted(_)
sorted(S) ==
    IF S = {} THEN <<>>
    ELSE LET m == CHOOSE m \in S : \A o \in S \ {m} : StrLess(m, o)
         IN  <<m>> \o sorted(S \ {m})

\* sep.join(parts)
RECURSIVE join(_, _)
join(sep, parts) ==
    IF parts = <<>> THEN <<>>
    ELSE IF Len(parts) = 1 THEN parts[1]
    ELSE parts[1] \o sep \o join(sep, Tail(parts))

\* s.split(sep) for a one-character sep: the pieces between the separators,
\* empty pieces included.
RECURSIVE split(_, _)
split(s, sep) ==
    LET at == {i \in 1..Len(s) : s[i] = sep}
    IN  IF at = {} THEN <<s>>
        ELSE LET i == CHOOSE i \in at : \A j \in at : i <= j
             IN  <<SubSeq(s, 1, i - 1)>> \o split(SubSeq(s, i + 1, Len(s)), sep)

\* All str of at most n characters over the alphabet.
StringsUpTo(alphabet, n) == UNION {[1..k -> alphabet] : k \in 0..n}

\* ------------------------------------------------------------------ Annotation

\* The span [^[\]]+ takes at the start of s: the characters before the first
\* bracket.
RECURSIVE TermSpan(_)
TermSpan(s) ==
    IF s = <<>> \/ Head(s) \in {"[", "]"} THEN 0 ELSE 1 + TermSpan(Tail(s))

NoMatch == [matched |-> FALSE]

\* ANNOT_STRING_RE.match(s): ^(?P<term>[^[\]]+)(?:|\[(?P<modifiers>[^\]]+)\])$
\* The term group is greedy; a shorter term is followed by a character that
\* is neither the end of s nor "[", so backtracking into it never matches.
\* modifiers is None when the empty alternative matched.
ANNOT_STRING_RE(s) ==
    LET n == TermSpan(s)
        rest == SubSeq(s, n + 1, Len(s))
        m == Len(rest)
    IN  IF n = 0 THEN NoMatch
        ELSE IF m = 0
        THEN [matched |-> TRUE, term |-> SubSeq(s, 1, n), modifiers |-> NoObject]
        ELSE IF /\ m >= 3
                /\ rest[1] = "["
                /\ rest[m] = "]"
                /\ \A i \in 2..(m - 1) : rest[i] # "]"
        THEN [matched |-> TRUE, term |-> SubSeq(s, 1, n),
              modifiers |-> [cls |-> "str", value |-> SubSeq(rest, 2, m - 1)]]
        ELSE NoMatch

Range(f) == {f[i] : i \in DOMAIN f}

\* The modifiers Annotation.__init__ stores for the modifiers group.
ParseModifiers(group) ==
    IF group = NoObject THEN {} ELSE Range(split(group.value, ","))

\* Annotation(annotation_string) for a str.
Annotation__init__(annotation_string) ==
    LET m == ANNOT_STRING_RE(annotation_string)
    IN  IF ~m.matched THEN ValueError
        ELSE [cls |-> "Annotation", term |-> m.term,
              modifiers |-> ParseModifiers(m.modifiers)]

\* repr(a)
Annotation__repr__(a) ==
    IF a.modifiers # {}
    THEN a.term \o <<"[">> \o join(<<",">>, sorted(a.modifiers)) \o <<"]">>
    ELSE a.term

\* a == b for two annotations.
AnnotationEquals(a, b) == a.term = b.term /\ a.modifiers = b.modifiers

\* a == other, other a str or an annotation: a bool, or what parsing the str
\* raised.
Annotation__eq__(a, other) ==
    IF other.cls = "str"
    THEN LET b == Annotation__init__(other.value)
         IN  IF IsException(b) THEN b
             ELSE [cls |-> "bool", value |-> AnnotationEquals(a, b)]
    ELSE [cls |-> "bool", value |-> AnnotationEquals(a, other)]

IsAnnotation(v) == v.cls \in {"Annotation", "OntologyAnnotation"}

\* ------------------------------------------------------------------ parsing one annotation

ParseAlphabet == {"a", "b", ",", "[", "]", " "}

NoCall == [op |-> "none"]

InitIdle ==
    /\ text = <<>>
    /\ annot = NoObject
    /\ colls = <<>>
    /\ heap = <<>>
    /\ entries = <<>>
    /\ ret = NoCall

\* annot = Annotation(s), the first statement of the caller
NewAnnotation(s) ==
    /\ annot = NoObject
    /\ text' = s
    /\ annot' = Annotation__init__(s)
    /\ UNCHANGED <<colls, heap, entries, ret>>

\* r = repr(annot)
Repr ==
    /\ IsAnnotation(annot)
    /\ ret' = [op |-> "repr", value |-> Annotation__repr__(annot)]
    /\ UNCHANGED <<text, annot, colls, heap, entries>>

\* annot == r, with r the str repr(annot) returned
EqRepr ==
    /\ IsAnnotation(annot)
    /\ ret.op = "repr"
    /\ ret' = [op |-> "eq", other |-> ret.value,
               value |-> Annotation__eq__(annot, [cls |-> "str", value |-> ret.value])]
    /\ UNCHANGED <<text, annot, colls, heap, entries>>

NextParse ==
    \/ \E s \in StringsUpTo(ParseAlphabet, MaxLen) : NewAnnotation(s)
    \/ Repr
    \/ EqRepr

SpecParse == InitIdle /\ [][NextParse]_vars

\* A str with no leading or trailing whitespace.
Trimmed(s) == s = <<>> \/ (~IsSpace(s[1]) /\ ~IsSpace(s[Len(s)]))

HasAny(s, chars) == \E i \in 1..Len(s) : s[i] \in chars

\* C6: every modifier of a parsed annotation is a trimmed, non-empty token.
C6_ModifiersTrimmedNonEmpty ==
    IsAnnotation(annot) => \A m \in annot.modifiers : m # <<>> /\ Trimmed(m)

\* C8: an annotation from the parser whose term and modifiers hold no "[",
\* "]" or "," equals the parse of its own repr.
C8_RoundTrip ==
    (/\ ret.op = "eq"
     /\ ~HasAny(annot.term, {"[", "]", ","})
     /\ \A m \in annot.modifiers : ~HasAny(m, {"[", "]", ","}))
    => ret.value = [cls |-> "bool", value |-> TRUE]

\* ------------------------------------------------------------------ matching one annotation

\* Annotation._match_term(term)
Annotation_match_term(a, term) == a.term = term

\* Annotation.match with the emptiness test of require_modifiers left out.
ModifiersPass_NoEmptinessTest(a, require_modifiers, exclude_modifiers) ==
    LET require == IF require_modifiers = NoObject THEN a.modifiers
                   ELSE require_modifiers.value
        exclude == IF exclude_modifiers = NoObject THEN {}
                   ELSE exclude_modifiers.value
    IN  IF \/ a.modifiers \cap require = {}
           \/ ~(a.modifiers \cap exclude = {})
        THEN FALSE
        ELSE TRUE

\* The modifier test of Annotation.match once the term has matched:
\* require_modifiers and exclude_modifiers are None or a set.
ModifiersPass(a, require_modifiers, exclude_modifiers) ==
    LET require == IF require_modifiers = NoObject THEN a.modifiers
                   ELSE require_modifiers.value
        exclude == IF exclude_modifiers = NoObject THEN {}
                   ELSE exclude_modifiers.value
    IN  IF \/ require # {} /\ a.modifiers \cap require = {}
           \/ ~(a.modifiers \cap exclude = {})
        THEN FALSE
        ELSE TRUE

\* Annotation.match(term, require_modifiers, exclude_modifiers) of a plain
\* Annotation.
Annotation_match(a, term, require_modifiers, exclude_modifiers) ==
    IF ~Annotation_match_term(a, term) THEN FALSE
    ELSE ModifiersPass(a, require_modifiers, exclude_modifiers)

\* Annotation.strip_modifiers(modifiers) of a plain Annotation: the class is
\* instantiated with None and the fields are assigned.
Annotation_strip_modifiers(a, modifiers) ==
    [cls |-> "Annotation", term |-> a.term,
     modifiers |-> IF modifiers = NoObject THEN {} ELSE a.modifiers \ modifiers.value]

PySet(S) == [cls |-> "set", value |-> S]

\* The canonical annotation string of a term and a set of modifiers.
Compose(term, mods) ==
    IF mods = {} THEN term
    ELSE term \o <<"[">> \o join(<<",">>, sorted(mods)) \o <<"]">>

MatchTerms == {<<"a">>, <<"b">>}
MatchModifiers == {<<"x">>, <<"y">>}
MatchStrings == {Compose(t, ms) : t \in MatchTerms, ms \in SUBSET MatchModifiers}
OptionalSets(universe) == {NoObject} \cup {PySet(S) : S \in SUBSET universe}

\* ret = annot.match(term, require_modifiers, exclude_modifiers)
Match(term, require_modifiers, exclude_modifiers) ==
    /\ annot.cls = "Annotation"
    /\ ret' = [op |-> "match", term |-> term, require |-> require_modifiers,
               exclude |-> exclude_modifiers,
               value |-> Annotation_match(annot, term, require_modifiers,
                                          exclude_modifiers)]
    /\ UNCHANGED <<text, annot, colls, heap, entries>>

\* ret = annot.strip_modifiers(modifiers)
Strip(modifiers) ==
    /\ annot.cls = "Annotation"
    /\ ret' = [op |-> "strip_modifiers", modifiers |-> modifiers,
               value |-> Annotation_strip_modifiers(annot, modifiers)]
    /\ UNCHANGED <<text, annot, colls, heap, entries>>

NextMatch ==
    \/ \E s \in MatchStrings : NewAnnotation(s)
    \/ \E t \in MatchTerms, r \in OptionalSets(MatchModifiers),
          x \in OptionalSets(MatchModifiers) : Match(t, r, x)
    \/ \E m \in OptionalSets(MatchModifiers) : Strip(m)

SpecMatch == InitIdle /\ [][NextMatch]_vars

RECURSIVE NotOpenSpan(_, _)
NotOpenSpan(s, p) ==
    IF p > Len(s) \/ s[p] = "[" THEN 0 ELSE 1 + NotOpenSpan(s, p + 1)

\* [^\[]*\] matches at position p of s: the greedy span is given back until
\* a "]" follows, so it matches iff the span holds a "]".
ClosesBeforeOpen(s, p) ==
    \E q \in p..(p + NotOpenSpan(s, p) - 1) : s[q] = "]"

\* The whitespace \s* takes from position p of s.
RECURSIVE SpaceSpan(_, _)
SpaceSpan(s, p) ==
    IF p > Len(s) \/ ~IsSpace(s[p]) THEN 0 ELSE 1 + SpaceSpan(s, p + 1)

\* ANNOT_SPLIT_RE matched at position i of s: ,\s*(?![^\[]*\])
\* The position its match ends at, or 0 when it does not match there: \s* is
\* greedy and gives whitespace back until the negative lookahead holds.
ANNOT_SPLIT_RE(s, i) ==
    IF s[i] # "," THEN 0
    ELSE LET ok == {k \in 0..SpaceSpan(s, i + 1) : ~ClosesBeforeOpen(s, i + 1 + k)}
         IN  IF ok = {} THEN 0
             ELSE i + (CHOOSE k \in ok : \A j \in ok : j <= k)

\* ANNOT_SPLIT_RE.split(s) from position pos on: the pieces between the
\* matches, found left to right.
RECURSIVE re_split(_, _)
re_split(s, pos) ==
    LET at == {i \in pos..Len(s) : ANNOT_SPLIT_RE(s, i) # 0}
    IN  IF at = {} THEN <<SubSeq(s, pos, Len(s))>>
        ELSE LET i == CHOOSE i \in at : \A j \in at : i <= j
             IN  <<SubSeq(s, pos, i - 1)>> \o re_split(s, ANNOT_SPLIT_RE(s, i) + 1)

\* frozenset([factory(a_str) for a_str in pieces]) with the objects already
\* built: the first exception a piece raised, or the set of the objects.
FrozensetOrRaise(objects) ==
    LET bad == {i \in DOMAIN objects : IsException(objects[i])}
    IN  IF bad # {} THEN objects[CHOOSE i \in bad : \A j \in bad : i <= j]
        ELSE PySet(Range(objects))

\* AnnotationCollection(annotations_string) with the default factory.
AnnotationCollection__init__(annotations_string) ==
    IF annotations_string # <<>>
    THEN LET pieces == re_split(annotations_string, 1)
             made == FrozensetOrRaise([i \in DOMAIN pieces |-> Annotation__init__(pieces[i])])
         IN  IF IsException(made) THEN made
             ELSE [cls |-> "AnnotationCollection", annotations |-> made.value]
    ELSE [cls |-> "AnnotationCollection", annotations |-> {}]

\* re.compile(pattern).match(s) for a pattern of literal characters, "." and
\* "$": whether the pattern matches at the start of s.
RECURSIVE re_match(_, _)
re_match(pattern, s) ==
    IF pattern = <<>> THEN TRUE
    ELSE IF Head(pattern) = "$" THEN s = <<>> /\ re_match(Tail(pattern), s)
    ELSE IF s = <<>> THEN FALSE
    ELSE IF Head(pattern) = "." THEN re_match(Tail(pattern), Tail(s))
    ELSE Head(pattern) = Head(s) /\ re_match(Tail(pattern), Tail(s))

\* The test of __contains__ with the terms compared for equality.
EntryMatches_EqualTerms(entry, q) ==
    /\ q.term = entry.term
    /\ \A m \in q.modifiers : m \in entry.modifiers

\* The test __contains__ makes of one member: term_re.match(entry.term) and
\* entry.modifiers.issuperset(annot.modifiers).
EntryMatches(entry, q) ==
    /\ re_match(q.term, entry.term)
    /\ \A m \in q.modifiers : m \in entry.modifiers

\* The loop of __contains__ over the members not yet visited.
RECURSIVE ContainsLoop(_, _)
ContainsLoop(members, q) ==
    IF members = {} THEN FALSE
    ELSE LET entry == CHOOSE m \in members : TRUE
         IN  IF EntryMatches(entry, q) THEN TRUE
             ELSE ContainsLoop(members \ {entry}, q)

\* item in collection, item a str or an annotation: a bool, or what parsing
\* the str raised.
AnnotationCollection__contains__(collection, item) ==
    LET q == IF item.cls = "str" THEN Annotation__init__(item.value) ELSE item
    IN  IF IsException(q) THEN q
        ELSE [cls |-> "bool", value |-> ContainsLoop(collection.annotations, q)]

IsCollection(v) == v.cls \in {"AnnotationCollection", "OntologyAnnotationCollection"}

\* ------------------------------------------------------------------ parsing a collection

CollectionAlphabet == {"a", ",", "[", "]", " "}

\* The str of exactly n characters the Annotation parser accepts.
WellFormedOfLen ==
    [n \in 0..MaxLen |->
        {s \in [1..n -> CollectionAlphabet] : ~IsException(Annotation__init__(s))}]

\* The lists of at most k well-formed parts whose join has at most budget
\* characters.
RECURSIVE PartListsWithin(_, _)
PartListsWithin(k, budget) ==
    IF k = 0 THEN {<<>>}
    ELSE {<<>>} \cup
         UNION {{<<p>> \o rest : p \in WellFormedOfLen[n],
                                rest \in PartListsWithin(k - 1, budget - n - 1)} :
                n \in 0..Min(MaxLen, budget)}

PartLists == PartListsWithin(MaxMembers, MaxText)

\* text = ",".join(parts)
JoinParts(parts) ==
    /\ ret = NoCall
    /\ colls = <<>>
    /\ text' = join(<<",">>, parts)
    /\ ret' = [op |-> "join", parts |-> parts]
    /\ UNCHANGED <<annot, colls, heap, entries>>

\* colls[1] = AnnotationCollection(text)
NewCollectionFromText ==
    /\ ret.op = "join"
    /\ colls = <<>>
    /\ colls' = <<AnnotationCollection__init__(text)>>
    /\ UNCHANGED <<text, annot, heap, entries, ret>>

NextCollection ==
    \/ \E ps \in PartLists : JoinParts(ps)
    \/ NewCollectionFromText

SpecCollection == InitIdle /\ [][NextCollection]_vars

\* A part whose term holds no comma and does not begin with whitespace, so
\* that the joined text determines the parts.
PlainTerm(part) ==
    LET t == Annotation__init__(part).term
    IN  ~HasAny(t, {","}) /\ ~IsSpace(t[1])

\* C3: the collection built from well-formed annotation strings joined by
\* commas holds exactly the annotations the strings parse to (the empty text
\* gives the empty collection); a comma inside brackets never splits a
\* member.  Stated for parts whose terms are plain.
C3_MembersAreTheJoinedParts ==
    (/\ ret.op = "join"
     /\ Len(colls) = 1
     /\ \A i \in DOMAIN ret.parts : PlainTerm(ret.parts[i]))
    => colls[1] = [cls |-> "AnnotationCollection",
                   annotations |-> {Annotation__init__(ret.parts[i]) : i \in DOMAIN ret.parts}]

\* ------------------------------------------------------------------ containment

ContainsTerms == {<<"a">>, <<"a", "b">>, <<".">>, <<"a", "$">>}
ContainsModifiers == {<<"x">>, <<"y">>}
ContainsStrings ==
    {Compose(t, ms) : t \in ContainsTerms, ms \in SUBSET ContainsModifiers}
ContainsTexts ==
    {join(<<",">>, ps) : ps \in UNION {[1..k -> ContainsStrings] : k \in 0..MaxMembers}}
PyStr(s) == [cls |-> "str", value |-> s]
ContainsItems ==
    {PyStr(s) : s \in ContainsStrings} \cup {Annotation__init__(s) : s \in ContainsStrings}

\* colls[1] = AnnotationCollection(s)
NewCollection(s) ==
    /\ colls = <<>>
    /\ colls' = <<AnnotationCollection__init__(s)>>
    /\ UNCHANGED <<text, annot, heap, entries, ret>>

\* ret = item in colls[1]
Contains(item) ==
    /\ Len(colls) = 1
    /\ IsCollection(colls[1])
    /\ ret' = [op |-> "contains", item |-> item,
               value |-> AnnotationCollection__contains__(colls[1], item)]
    /\ UNCHANGED <<text, annot, colls, heap, entries>>

NextContains ==
    \/ \E s \in ContainsTexts : NewCollection(s)
    \/ \E item \in ContainsItems : Contains(item)

SpecContains == InitIdle /\ [][NextContains]_vars

\* The characters of s the pattern has consumed before its i-th character.
Consumed(pattern, i) == Cardinality({j \in 1..(i - 1) : pattern[j] # "$"})

\* The pattern, read as a regular expression over literal characters, "."
\* (any character) and "$" (the end of the str), matches s from its start.
MatchesFromStart(pattern, s) ==
    \A i \in 1..Len(pattern) :
        LET k == Consumed(pattern, i)
        IN  IF pattern[i] = "$" THEN k = Len(s)
            ELSE k < Len(s) /\ (pattern[i] = "." \/ pattern[i] = s[k + 1])

\* The annotation a query stands for.
QueryOf(item) == IF item.cls = "str" THEN Annotation__init__(item.value) ELSE item

\* C4: q in C is true iff some member's term is matched from the start by
\* q's term read as a regular expression and the member's modifiers are a
\* superset of q's.
C4_ContainsRule ==
    ret.op = "contains" =>
        /\ ret.value.cls = "bool"
        /\ ret.value.value <=>
            \E m \in colls[1].annotations :
                /\ MatchesFromStart(QueryOf(ret.item).term, m.term)
                /\ QueryOf(ret.item).modifiers \subseteq m.modifiers

\* C4 witness: a str query was found in a collection none of whose members
\* has the query's term or the query's modifier set.
C4_Witness ==
    /\ ret.op = "contains"
    /\ ret.item.cls = "str"
    /\ ret.value = [cls |-> "bool", value |-> TRUE]
    /\ \A m \in colls[1].annotations :
        /\ m.term # QueryOf(ret.item).term
        /\ m.modifiers # QueryOf(ret.item).modifiers

\* ------------------------------------------------------------------ OntologyEntry, Ontology

\* None as the parent of an OntologyEntry (entries are numbered from 1).
NoEntry == 0

\* OntologyEntry(name)
OntologyEntry__init__(name) == [name |-> name, parent |-> NoEntry, children |-> {}]

\* entry.set_parent(parent)
set_parent(entry, parent) == [entry EXCEPT !.parent = parent]

\* entry.add_child(child)
add_child(entry, child) == [entry EXCEPT !.children = @ \cup {child}]

\* match_term as its docstring words it: the entry's descendants are searched.
RECURSIVE match_term_descendants(_, _, _, _)
match_term_descendants(h, e, term, recursive) ==
    IF h[e].name = term THEN TRUE
    ELSE IF recursive
    THEN \E c \in h[e].children : match_term_descendants(h, c, term, TRUE)
    ELSE FALSE

\* h[e].match_term(term, recursive) on the heap h of entries.
RECURSIVE match_term(_, _, _, _)
match_term(h, e, term, recursive) ==
    IF h[e].name = term THEN TRUE
    ELSE IF recursive /\ h[e].parent # NoEntry
    THEN match_term(h, h[e].parent, term, TRUE)
    ELSE FALSE

\* Ontology().entries: the empty dict.
EmptyDict == <<>>

\* d[key] = value
DictSet(d, key, value) ==
    [k \in DOMAIN d \cup {key} |-> IF k = key THEN value ELSE d[k]]

\* OntologyAnnotation(annotation_string, ontology), index = ontology.entries.
OntologyAnnotation__init__(annotation_string, index) ==
    LET a == Annotation__init__(annotation_string)
    IN  IF IsException(a) THEN a
        ELSE IF a.term \notin DOMAIN index THEN KeyError
        ELSE [cls |-> "OntologyAnnotation", term |-> a.term,
              modifiers |-> a.modifiers, ontology_entry |-> index[a.term]]

\* OntologyAnnotation._match_term(term, recursive)
OntologyAnnotation_match_term(h, a, term, recursive) ==
    match_term(h, a.ontology_entry, term, recursive)

\* Annotation.match(term, require_modifiers, exclude_modifiers,
\* recursive=recursive) of an OntologyAnnotation.
OntologyAnnotation_match(h, a, term, require_modifiers, exclude_modifiers, recursive) ==
    IF ~OntologyAnnotation_match_term(h, a, term, recursive) THEN FALSE
    ELSE ModifiersPass(a, require_modifiers, exclude_modifiers)

\* s.lower()
lower(s) == [i \in DOMAIN s |-> IF s[i] = "A" THEN "a" ELSE s[i]]

\* ------------------------------------------------------------------ one ontology

OntologyNames == {<<"a">>, <<"b">>, <<"c">>}
QueryTerms == OntologyNames \cup {<<"A">>}
QueryStrings == QueryTerms \cup {Compose(<<"a">>, {<<"x">>})}

InitOntology ==
    /\ text = <<>>
    /\ annot = NoObject
    /\ colls = <<>>
    /\ heap = <<>>
    /\ entries = <<EmptyDict>>
    /\ ret = NoCall

\* The loader adds one entry to ontology o of the store st = [heap, entries]:
\* it creates the entry, indexes it under its lower-cased name and links it
\* below an entry loaded before (or leaves it a root).
LoadEntry(st, o, name, parent) ==
    LET e == Len(st.heap) + 1
        created == Append(st.heap, OntologyEntry__init__(name))
    IN  [heap |-> IF parent = NoEntry THEN created
                  ELSE [created EXCEPT ![e] = set_parent(@, parent),
                                       ![parent] = add_child(@, e)],
         entries |-> [st.entries EXCEPT ![o] = DictSet(@, lower(name), e)]]

\* One step of the loader, before the ontology is used.
Load(o, name, parent) ==
    /\ Len(heap) < MaxEntries
    /\ annot = NoObject
    /\ ret = NoCall
    /\ colls = <<>>
    /\ parent = NoEntry \/ parent \in Range(entries[o])
    /\ LET st == LoadEntry([heap |-> heap, entries |-> entries], o, name, parent)
       IN  heap' = st.heap /\ entries' = st.entries
    /\ UNCHANGED <<text, annot, colls, ret>>

\* ret = heap[e].match_term(term, recursive)
MatchTerm(e, term, recursive) ==
    /\ e \in DOMAIN heap
    /\ annot = NoObject
    /\ ret' = [op |-> "match_term", entry |-> e, term |-> term,
               recursive |-> recursive,
               value |-> match_term(heap, e, term, recursive)]
    /\ UNCHANGED <<text, annot, colls, heap, entries>>

\* annot = OntologyAnnotation(s, ontology o)
NewOntologyAnnotation(s, o) ==
    /\ annot = NoObject
    /\ ret = NoCall
    /\ heap # <<>>
    /\ text' = s
    /\ annot' = OntologyAnnotation__init__(s, entries[o])
    /\ UNCHANGED <<colls, heap, entries, ret>>

\* ret = annot.match(term, None, None, recursive=recursive)
OntologyMatch(term, recursive) ==
    /\ annot.cls = "OntologyAnnotation"
    /\ ret' = [op |-> "match", term |-> term, recursive |-> recursive,
               value |-> OntologyAnnotation_match(heap, annot, term, NoObject,
                                                  NoObject, recursive)]
    /\ UNCHANGED <<text, annot, colls, heap, entries>>

NextOntology ==
    \/ \E name \in OntologyNames, parent \in 0..MaxEntries : Load(1, name, parent)
    \/ \E e \in 1..MaxEntries, t \in QueryTerms, r \in BOOLEAN : MatchTerm(e, t, r)
    \/ \E s \in QueryStrings : NewOntologyAnnotation(s, 1)
    \/ \E t \in QueryTerms, r \in BOOLEAN : OntologyMatch(t, r)

SpecOntology == InitOntology /\ [][NextOntology]_vars

\* The parent of the parent of ... of entry e, k times; NoEntry when the
\* walk leaves the ontology before.
RECURSIVE ParentAbove(_, _, _)
ParentAbove(h, e, k) ==
    IF k = 0 \/ e = NoEntry THEN e ELSE ParentAbove(h, h[e].parent, k - 1)

\* The proper ancestors of entry e.
ProperAncestors(h, e) == {ParentAbove(h, e, k) : k \in 1..Len(h)} \ {NoEntry}

Acyclic(h) == \A e \in DOMAIN h : e \notin ProperAncestors(h, e)

DistinctNames(h) == \A e, f \in DOMAIN h : h[e].name = h[f].name => e = f

\* The name of entry e, or of one of its proper ancestors when recursive.
NamesMatched(h, e, recursive) ==
    {h[e].name} \cup
        (IF recursive THEN {h[a].name : a \in ProperAncestors(h, e)} ELSE {})

C5_CaseInsensitiveLookup ==
    (annot # NoObject /\ ~IsException(Annotation__init__(text))) =>
        LET key == lower(Annotation__init__(text).term)
        IN  /\ key \in DOMAIN entries[1] =>
                /\ annot.cls = "OntologyAnnotation"
                /\ annot.ontology_entry = entries[1][key]
            /\ annot = KeyError => key \notin DOMAIN entries[1]

\* ------------------------------------------------------------------ OntologyAnnotationCollection

\* OntologyAnnotationCollection(annotations_string, ontology o), index =
\* ontology.entries.
OntologyAnnotationCollection__init__(annotations_string, o, index) ==
    IF annotations_string # <<>>
    THEN LET pieces == re_split(annotations_string, 1)
             made == FrozensetOrRaise(
                         [i \in DOMAIN pieces |-> OntologyAnnotation__init__(pieces[i], index)])
         IN  IF IsException(made) THEN made
             ELSE [cls |-> "OntologyAnnotationCollection", ontology |-> o,
                   annotations |-> made.value]
    ELSE [cls |-> "OntologyAnnotationCollection", ontology |-> o, annotations |-> {}]

\* S | T for two frozensets of annotations: an element of T equal (by
\* __eq__ and __hash__) to one of S is not added.
frozenset_or(S, T) ==
    S \cup {b \in T : ~\E a \in S : AnnotationEquals(a, b)}

\* S & T for two frozensets of annotations: the elements of the smaller one
\* (of T when the sizes agree) that the other holds an equal of.
frozenset_and(S, T) ==
    LET small == IF Cardinality(T) > Cardinality(S) THEN S ELSE T
        big == IF Cardinality(T) > Cardinality(S) THEN T ELSE S
    IN  {k \in small : \E j \in big : AnnotationEquals(k, j)}

\* self & other
OntologyAnnotationCollection__and__(self, other) ==
    [cls |-> "OntologyAnnotationCollection", ontology |-> self.ontology,
     annotations |-> frozenset_and(self.annotations, other.annotations)]

\* self | other
OntologyAnnotationCollection__or__(self, other) ==
    [cls |-> "OntologyAnnotationCollection", ontology |-> self.ontology,
     annotations |-> frozenset_or(self.annotations, other.annotations)]

\* self.new_from_collection(annotations), by the class of self.
new_from_collection(self, annotations) ==
    IF self.cls = "OntologyAnnotationCollection"
    THEN [cls |-> "OntologyAnnotationCollection", ontology |-> self.ontology,
          annotations |-> annotations]
    ELSE [cls |-> "AnnotationCollection", annotations |-> annotations]

\* annot.match(annot.term, require_modifiers=..., exclude_modifiers=...) as
\* filter_by_modifiers calls it (recursive keeps its default, True).
MatchesOwnTerm(h, a, require_modifiers, exclude_modifiers) ==
    IF a.cls = "OntologyAnnotation"
    THEN OntologyAnnotation_match(h, a, a.term, require_modifiers, exclude_modifiers, TRUE)
    ELSE Annotation_match(a, a.term, require_modifiers, exclude_modifiers)

\* self.filter_by_modifiers(require_modifiers, exclude_modifiers)
filter_by_modifiers(h, self, require_modifiers, exclude_modifiers) ==
    new_from_collection(self,
        {a \in self.annotations : MatchesOwnTerm(h, a, require_modifiers, exclude_modifiers)})

\* annotation.strip_modifiers(modifiers), by the class of the annotation:
\* self.__class__(None) gives OntologyAnnotation.__init__ one argument of the
\* two it requires.
strip_member(a, modifiers) ==
    IF a.cls = "OntologyAnnotation" THEN TypeError
    ELSE Annotation_strip_modifiers(a, modifiers)

\* self.strip_modifiers(modifiers)
strip_modifiers(self, modifiers) ==
    LET stripped == {strip_member(a, modifiers) : a \in self.annotations}
    IN  IF \E r \in stripped : IsException(r) THEN TypeError
        ELSE new_from_collection(self, stripped)

\* a == b for two collections, as collections.abc.Set decides it: the sizes
\* agree and every element of a is `in` b.
Set__eq__(a, b) ==
    /\ Cardinality(a.annotations) = Cardinality(b.annotations)
    /\ \A elem \in a.annotations : ContainsLoop(b.annotations, elem)

\* ------------------------------------------------------------------ two ontologies

\* Both Ontology instances after the loader read the same definitions into
\* each: the root "a" and its child "a$".
LoadedTwice ==
    LET st0 == [heap |-> <<>>, entries |-> <<EmptyDict, EmptyDict>>]
        st1 == LoadEntry(st0, 1, <<"a">>, NoEntry)
        st2 == LoadEntry(st1, 1, <<"a", "$">>, 1)
        st3 == LoadEntry(st2, 2, <<"a">>, NoEntry)
    IN  LoadEntry(st3, 2, <<"a", "$">>, 3)

InitAlgebra ==
    /\ text = <<>>
    /\ annot = NoObject
    /\ colls = <<>>
    /\ heap = LoadedTwice.heap
    /\ entries = LoadedTwice.entries
    /\ ret = NoCall

AlgebraStrings == {Compose(t, ms) : t \in {<<"a">>, <<"a", "$">>}, ms \in SUBSET {<<"x">>}}
AlgebraTexts ==
    {join(<<",">>, ps) : ps \in UNION {[1..k -> AlgebraStrings] : k \in 0..MaxMembers}}
AlgebraSets == {NoObject, PySet({<<"x">>})}

\* The register derived collections are assigned to: the one after the
\* parsed collections.
Derived == MaxParsed + 1

Assign(result) ==
    IF Len(colls) < Derived THEN Append(colls, result)
    ELSE [colls EXCEPT ![Derived] = result]

\* colls[slot] = OntologyAnnotationCollection(s, ontology o); the first
\* collection is bound to the first Ontology instance.
NewOntologyCollection(slot, s, o) ==
    /\ Len(colls) = slot - 1
    /\ slot = 1 => o = 1
    /\ colls' = Append(colls, OntologyAnnotationCollection__init__(s, o, entries[o]))
    /\ UNCHANGED <<text, annot, heap, entries, ret>>

Operand(x) == Len(colls) >= MaxParsed /\ x \in DOMAIN colls /\ IsCollection(colls[x])

\* colls[Derived] = colls[x] | colls[y]
Or(x, y) ==
    /\ Operand(x) /\ Operand(y)
    /\ colls' = Assign(OntologyAnnotationCollection__or__(colls[x], colls[y]))
    /\ ret' = [op |-> "or", at |-> x, self |-> colls[x], other |-> colls[y]]
    /\ UNCHANGED <<text, annot, heap, entries>>

\* colls[Derived] = colls[x] & colls[y]
And(x, y) ==
    /\ Operand(x) /\ Operand(y)
    /\ colls' = Assign(OntologyAnnotationCollection__and__(colls[x], colls[y]))
    /\ ret' = [op |-> "and", at |-> x, self |-> colls[x], other |-> colls[y]]
    /\ UNCHANGED <<text, annot, heap, entries>>

\* colls[Derived] = colls[x].filter_by_modifiers(r, e)
FilterByModifiers(x, r, e) ==
    /\ Operand(x)
    /\ colls' = Assign(filter_by_modifiers(heap, colls[x], r, e))
    /\ ret' = [op |-> "filter_by_modifiers", at |-> x, self |-> colls[x], other |-> colls[x]]
    /\ UNCHANGED <<text, annot, heap, entries>>

\* colls[Derived] = colls[x].strip_modifiers(m)
StripModifiers(x, m) ==
    /\ Operand(x)
    /\ colls' = Assign(strip_modifiers(colls[x], m))
    /\ ret' = [op |-> "strip_modifiers", at |-> x, self |-> colls[x], other |-> colls[x]]
    /\ UNCHANGED <<text, annot, heap, entries>>

NextAlgebra ==
    \/ \E slot \in 1..MaxParsed, s \in AlgebraTexts, o \in DOMAIN entries :
          NewOntologyCollection(slot, s, o)
    \/ \E x, y \in 1..Derived : Or(x, y)
    \/ \E x, y \in 1..Derived : And(x, y)
    \/ \E x \in 1..Derived, r, e \in AlgebraSets : FilterByModifiers(x, r, e)
    \/ \E x \in 1..Derived, m \in AlgebraSets : StripModifiers(x, m)

SpecAlgebra == InitAlgebra /\ [][NextAlgebra]_vars

\* The collections held in the registers.
Held == {c \in Range(colls) : IsCollection(c)}

\* C7: on collections bound to one ontology, with == the collections' own
\* equality, union and intersection are commutative and associative and
\* A & A == A, A | A == A.
C7_SetLaws ==
    \A A, B, C \in Held :
        (A.ontology = B.ontology /\ B.ontology = C.ontology) =>
            /\ Set__eq__(OntologyAnnotationCollection__or__(A, B),
                         OntologyAnnotationCollection__or__(B, A))
            /\ Set__eq__(OntologyAnnotationCollection__and__(A, B),
                         OntologyAnnotationCollection__and__(B, A))
            /\ Set__eq__(OntologyAnnotationCollection__or__(
                             OntologyAnnotationCollection__or__(A, B), C),
                         OntologyAnnotationCollection__or__(
                             A, OntologyAnnotationCollection__or__(B, C)))
            /\ Set__eq__(OntologyAnnotationCollection__and__(
                             OntologyAnnotationCollection__and__(A, B), C),
                         OntologyAnnotationCollection__and__(
                             A, OntologyAnnotationCollection__and__(B, C)))
            /\ Set__eq__(OntologyAnnotationCollection__and__(A, A), A)
            /\ Set__eq__(OntologyAnnotationCollection__or__(A, A), A)

\* C9: a union or intersection of collections bound to different Ontology
\* instances yields no collection (it fails with a configuration error); in
\* particular it never yields a collection bound to one ontology that holds a
\* member resolved against the other.
C9_NoSilentMerge ==
    (ret.op \in {"or", "and"} /\ ret.self.ontology # ret.other.ontology) =>
        ~(/\ IsCollection(colls[Derived])
          /\ \E m \in colls[Derived].annotations :
                m.ontology_entry # entries[colls[Derived].ontology][m.term])

\* A collection bound to an ontology whose members all carry the entry that
\* ontology indexes under their term.
ResolvedAgainstOwnOntology(c) ==
    /\ c.cls = "OntologyAnnotationCollection"
    /\ \A m \in c.annotations :
        /\ m.cls = "OntologyAnnotation"
        /\ m.term \in DOMAIN entries[c.ontology]
        /\ m.ontology_entry = entries[c.ontology][m.term]

\* C10: filter_by_modifiers, strip_modifiers, union and intersection on
\* collections resolved against one ontology O complete without error and
\* give a collection bound to O whose members are resolved against O, and
\* leave the receiver as it was.
C10_DerivedCollectionClosure ==
    (/\ ret.op \in {"or", "and", "filter_by_modifiers", "strip_modifiers"}
     /\ ResolvedAgainstOwnOntology(ret.self)
     /\ ResolvedAgainstOwnOntology(ret.other)
     /\ ret.self.ontology = ret.other.ontology)
    => /\ ResolvedAgainstOwnOntology(colls[Derived])
       /\ colls[Derived].ontology = ret.self.ontology
       /\ ret.at # Derived => colls[ret.at] = ret.self

====
